---- MODULE Spec2Model ----
(***************************************************************************)
(* A model of src/app.py, the Streamlit script of the outdoor weather risk *)
(* dashboard.  One run of the script is a straight pipeline:               *)
(*   key check -> fetch -> filter by date -> data frame -> classification  *)
(*   -> risk assessment (counts and probabilities) -> summary insight.     *)
(* st.stop() and an uncaught exception both end the run.                   *)
(*                                                                         *)
(* Units.  Temperature, wind speed and rain are floats in the script; they *)
(* are held here in tenths (25.0 C is 250), humidity is a whole percent.   *)
(* Probabilities are held in tenths of a percent, i.e. as the number the   *)
(* script prints with the format .1f, times ten.                           *)
(* Strings that the script only compares by prefix (dt_txt, str(date)) are *)
(* sequences of one-character strings.                                     *)
(* The plotting and st.write / st.dataframe calls render and keep no state *)
(* that a later step reads; they are left out, except for the lines that   *)
(* the risk assessment writes (variable written).                          *)
(***************************************************************************)
EXTENDS Integers, Sequences, FiniteSets, TLC

VARIABLES
    pc,                   \* the section of the script that runs next, or how the run ended
    OPENWEATHER_API_KEY,  \* app.py:16, "" when the environment has none
    date_selected,        \* app.py:34, a date: [year, month, day]
    fetch_error,          \* app.py:45, the exception of the fetch, "none" when there is none
    forecast_json,        \* app.py:44
    forecast_list,        \* app.py:50
    selected_forecast,    \* app.py:53
    df,                   \* app.py:59, the rows without the Condition column
    Condition,            \* app.py:83, the column df["Condition"]
    risk_counts,          \* app.py:104, a dict: sequence of [condition, count] in dict order
    total_slots,          \* app.py:105
    written,              \* app.py:110, the lines st.write printed, in order
    unique_conditions,    \* app.py:122
    summary,              \* app.py:123-135
    executed              \* history: the sections run so far, in order

vars == <<pc, OPENWEATHER_API_KEY, date_selected, fetch_error, forecast_json,
          forecast_list, selected_forecast, df, Condition, risk_counts,
          total_slots, written, unique_conditions, summary, executed>>

----------------------------------------------------------------------------
(* Bounds of the model. *)

\* Longest forecast list whose records are taken in every order.
MaxRecords == 3

\* Longest forecast list of the lists that are grouped by category.
MaxSlots == 6

----------------------------------------------------------------------------
(* Values. *)

Tenths(x) == x * 10

Unset == <<>>

EmptyDict == <<>>

Range(s) == {s[i] : i \in DOMAIN s}

\* dict.get(key, default)
Get(d, key, default) == IF key \in DOMAIN d THEN d[key] ELSE default

\* d without the key: builds the provider records that lack a field.
Without(d, key) == [k \in (DOMAIN d) \ {key} |-> d[k]]

DigitChars == <<"0", "1", "2", "3", "4", "5", "6", "7", "8", "9">>

\* n as w decimal digits, zero-padded (the %04d and %02d of date.isoformat).
RECURSIVE Padded(_, _)
Padded(n, w) ==
    IF w = 0 THEN <<>>
    ELSE Append(Padded(n \div 10, w - 1), DigitChars[(n % 10) + 1])

\* A faulty str(date): the digits without the zero padding.
RECURSIVE Digits(_)
Digits(n) ==
    IF n < 10 THEN <<DigitChars[n + 1]>>
    ELSE Append(Digits(n \div 10), DigitChars[(n % 10) + 1])

StrDateUnpadded(d) ==
    Digits(d.year) \o <<"-">> \o Digits(d.month) \o <<"-">> \o Digits(d.day)

\* str(date_selected): YYYY-MM-DD.
StrDate(d) ==
    Padded(d.year, 4) \o <<"-">> \o Padded(d.month, 2) \o <<"-">> \o Padded(d.day, 2)

\* s.startswith(prefix)
StartsWith(s, prefix) ==
    /\ Len(s) >= Len(prefix)
    /\ SubSeq(s, 1, Len(prefix)) = prefix

----------------------------------------------------------------------------
(* The inputs of a run: the date the user picks and the provider's answer. *)

Dates == {[year |-> 2026, month |-> 11, day |-> 1], [year |-> 2026, month |-> 11, day |-> 10]}

\* dt_txt of the provider, "YYYY-MM-DD HH:MM:SS"; the time is one element.
Stamp01 == <<"2", "0", "2", "6", "-", "1", "1", "-", "0", "1", " ", "09:00:00">>

Stamp10 == <<"2", "0", "2", "6", "-", "1", "1", "-", "1", "0", " ", "12:00:00">>

\* One record of forecast_json["list"] with every field the script reads.
Forecast(stamp, temp, humidity, wind, rain) ==
    [dt_txt  |-> stamp,
     main    |-> [temp |-> temp, humidity |-> humidity],
     wind    |-> [speed |-> wind],
     weather |-> <<[description |-> "sky"]>>,
     rain    |-> ("3h" :> rain)]

Temperatures == {Tenths(10), Tenths(10) + 1, Tenths(20) - 1, Tenths(20), Tenths(25),
                 Tenths(32), Tenths(32) + 1, Tenths(35) - 1, Tenths(35), Tenths(36)}

WindSpeeds == {Tenths(10) - 1, Tenths(10), Tenths(15)}

Rains == {0, Tenths(2), Tenths(2) + 1, Tenths(5)}

Humidities == {50, 79, 80, 90}

\* Every combination of the values around the thresholds, on the first date.
BoundaryForecasts ==
    {Forecast(Stamp01, t, h, w, r) :
        t \in Temperatures, h \in Humidities, w \in WindSpeeds, r \in Rains}

\* One forecast per category, in the order of the rules of weather_risk.
CategoryForecasts ==
    <<Forecast(Stamp01, Tenths(36), 90, Tenths(15), Tenths(5)),
      Forecast(Stamp01, Tenths(10), 50, Tenths(10) - 1, 0),
      Forecast(Stamp01, Tenths(25), 50, Tenths(10), 0),
      Forecast(Stamp01, Tenths(25), 80, Tenths(10) - 1, Tenths(2) + 1),
      Forecast(Stamp01, Tenths(25), 80, Tenths(10) - 1, 0),
      Forecast(Stamp01, Tenths(10) + 1, 50, Tenths(10) - 1, 0)>>

Mild(stamp) == Forecast(stamp, Tenths(25), 50, Tenths(10) - 1, Tenths(5))

\* The shapes a provider record can have: the optional rain field present,
\* absent or without its "3h" key, a required field absent, either date.
RawForecasts ==
    {Without(Forecast(Stamp01, Tenths(36), 50, 0, 0), "rain"),
     Mild(Stamp01),
     [Mild(Stamp01) EXCEPT !.rain = ("1h" :> Tenths(5))],
     Forecast(Stamp10, Tenths(10), 50, 0, 0),
     [Mild(Stamp01) EXCEPT !.main = Without(Mild(Stamp01).main, "temp")],
     [Mild(Stamp01) EXCEPT !.main = Without(Mild(Stamp01).main, "humidity")],
     [Mild(Stamp01) EXCEPT !.wind = EmptyDict],
     [Mild(Stamp01) EXCEPT !.weather = <<EmptyDict>>],
     [Mild(Stamp10) EXCEPT !.main = Without(Mild(Stamp10).main, "temp")]}

SeqsUpTo(S, n) == UNION {[1..k -> S] : k \in 0..n}

\* Lists of the category forecasts with the categories in rule order.
GroupedLists ==
    {[i \in 1..Len(ix) |-> CategoryForecasts[ix[i]]] :
        ix \in {s \in SeqsUpTo(DOMAIN CategoryForecasts, MaxSlots) :
                    \A i \in 1..(Len(s) - 1) : s[i] <= s[i + 1]}}

ForecastLists ==
    {<<f>> : f \in BoundaryForecasts}
        \cup SeqsUpTo(RawForecasts, MaxRecords)
        \cup SeqsUpTo(Range(CategoryForecasts), MaxRecords)
        \cup GroupedLists

\* What requests.get(url), raise_for_status() and response.json() can do.
FetchFailures == {"ConnectionError", "HTTPError", "JSONDecodeError"}

----------------------------------------------------------------------------
(* The functions of the script. *)

\* A priority slip: the wind rule ahead of the temperature rules.
weather_risk_windfirst(temp, wind, rain, humidity) ==
    IF wind >= Tenths(10) THEN "Very Windy"
    ELSE IF temp >= Tenths(35) THEN "Very Hot"
    ELSE IF temp <= Tenths(10) THEN "Very Cold"
    ELSE IF rain > Tenths(2) THEN "Very Wet"
    ELSE IF humidity >= 80 /\ Tenths(20) <= temp /\ temp <= Tenths(32)
        THEN "Very Uncomfortable"
    ELSE "Comfortable"

\* A missing else branch: the function falls off its end and returns None.
weather_risk_noelse(temp, wind, rain, humidity) ==
    IF temp >= Tenths(35) THEN "Very Hot"
    ELSE IF temp <= Tenths(10) THEN "Very Cold"
    ELSE IF wind >= Tenths(10) THEN "Very Windy"
    ELSE IF rain > Tenths(2) THEN "Very Wet"
    ELSE IF humidity >= 80 /\ Tenths(20) <= temp /\ temp <= Tenths(32)
        THEN "Very Uncomfortable"
    ELSE "None"

weather_risk(temp, wind, rain, humidity) ==
    IF temp >= Tenths(35) THEN "Very Hot"
    ELSE IF temp <= Tenths(10) THEN "Very Cold"
    ELSE IF wind >= Tenths(10) THEN "Very Windy"
    ELSE IF rain > Tenths(2) THEN "Very Wet"
    ELSE IF humidity >= 80 /\ Tenths(20) <= temp /\ temp <= Tenths(32)
        THEN "Very Uncomfortable"
    ELSE "Comfortable"

\* True when building the row of f raises KeyError or IndexError.
RowRaises(f) ==
    \/ "main" \notin DOMAIN f
    \/ "temp" \notin DOMAIN f.main
    \/ "humidity" \notin DOMAIN f.main
    \/ "wind" \notin DOMAIN f
    \/ "speed" \notin DOMAIN f.wind
    \/ "weather" \notin DOMAIN f
    \/ Len(f.weather) = 0
    \/ "description" \notin DOMAIN f.weather[1]

\* The dict of one row of the data frame.
Row(f) ==
    [time        |-> f.dt_txt,
     temperature |-> f.main.temp,
     humidity    |-> f.main.humidity,
     wind_speed  |-> f.wind.speed,
     weather     |-> f.weather[1].description,
     rain        |-> Get(Get(f, "rain", EmptyDict), "3h", 0)]

\* The number of rows of the column with the value c.
Count(col, c) == Cardinality({i \in DOMAIN col : col[i] = c})

\* Series.unique(): the distinct values in order of first occurrence.
RECURSIVE unique(_)
unique(col) ==
    IF col = <<>> THEN <<>>
    ELSE LET front == unique(SubSeq(col, 1, Len(col) - 1))
             last  == col[Len(col)]
         IN  IF last \in Range(front) THEN front ELSE Append(front, last)

\* value_counts() of a categorical column: every category, also with count 0.
value_counts_categorical(col) ==
    LET all == <<"Very Hot", "Very Cold", "Very Windy", "Very Wet",
                 "Very Uncomfortable", "Comfortable">>
    IN  {[i \in DOMAIN all |-> [condition |-> all[i], count |-> Count(col, all[i])]]}

\* value_counts(sort=False): the values in order of first occurrence.
value_counts_unsorted(col) ==
    {[i \in DOMAIN unique(col) |->
        [condition |-> unique(col)[i], count |-> Count(col, unique(col)[i])]]}

\* Series.value_counts().to_dict(): one entry per distinct value with its
\* number of rows, the larger counts first.  pandas does not fix the order of
\* values with equal counts (it is the order its sort leaves them in), so
\* this is the set of the dicts to_dict() can return.
value_counts(col) ==
    LET values == Range(col)
        k      == Cardinality(values)
        orders == {s \in [1..k -> values] :
                      /\ \A i, j \in 1..k : i # j => s[i] # s[j]
                      /\ \A i \in 1..(k - 1) : Count(col, s[i]) >= Count(col, s[i + 1])}
    IN  {[i \in 1..k |-> [condition |-> s[i], count |-> Count(col, s[i])]] : s \in orders}

\* The format .1f cutting the second decimal off instead of rounding.
Format1fTruncating(count, total) == (1000 * count) \div total

\* f"{(count / total_slots) * 100:.1f}": the percentage rounded to one decimal,
\* in tenths.  The exact value lies half way between two decimals only when
\* total_slots is a multiple of 16, which no run within MaxSlots has; there
\* the format rounds the double it is given, to the even decimal when the
\* double is the half way point itself.
Format1f(count, total) ==
    LET lo  == (1000 * count) \div total
        rem == (1000 * count) % total
    IN  IF 2 * rem > total THEN lo + 1
        ELSE IF 2 * rem < total THEN lo
        ELSE IF lo % 2 = 0 THEN lo ELSE lo + 1

\* The advisory clauses of the summary, in the order of the script's ifs.
Advice(conditions) ==
    (IF "Very Hot" \in Range(conditions)
        THEN <<"Stay hydrated and avoid peak afternoon heat.">> ELSE <<>>)
    \o (IF "Very Cold" \in Range(conditions)
        THEN <<"Wear layers and protect against the cold.">> ELSE <<>>)
    \o (IF "Very Windy" \in Range(conditions)
        THEN <<"Be cautious with outdoor activities.">> ELSE <<>>)
    \o (IF "Very Wet" \in Range(conditions)
        THEN <<"Carry rain gear or reconsider outdoor plans.">> ELSE <<>>)
    \o (IF "Very Uncomfortable" \in Range(conditions)
        THEN <<"High humidity may cause discomfort.">> ELSE <<>>)
    \o (IF "Comfortable" \in Range(conditions)
        THEN <<"Great conditions for outdoor activities!">> ELSE <<>>)

----------------------------------------------------------------------------
(* The run. *)

Init ==
    /\ pc = "check_key"
    /\ OPENWEATHER_API_KEY \in {"", "key"}
    /\ date_selected \in Dates
    /\ fetch_error = "none"
    /\ forecast_json = Unset
    /\ forecast_list = Unset
    /\ selected_forecast = Unset
    /\ df = Unset
    /\ Condition = Unset
    /\ risk_counts = Unset
    /\ total_slots = 0
    /\ written = <<>>
    /\ unique_conditions = Unset
    /\ summary = Unset
    /\ executed = <<>>

\* app.py:15-19
CheckKey ==
    /\ pc = "check_key"
    /\ executed' = Append(executed, "check_key")
    /\ pc' = IF OPENWEATHER_API_KEY = "" THEN "stopped_no_key" ELSE "fetch"
    /\ UNCHANGED <<OPENWEATHER_API_KEY, date_selected, fetch_error, forecast_json,
                   forecast_list, selected_forecast, df, Condition, risk_counts,
                   total_slots, written, unique_conditions, summary>>

\* A fetch that tries again after a failure.
FetchForecastRetrying ==
    /\ pc = "fetch"
    /\ executed' = Append(executed, "fetch")
    /\ \E outcome \in FetchFailures \cup {"ok"}, body \in ForecastLists :
          IF outcome = "ok"
          THEN /\ forecast_json' = [list |-> body]
               /\ fetch_error' = fetch_error
               /\ pc' = "filter"
          ELSE /\ body = <<>>
               /\ forecast_json' = forecast_json
               /\ fetch_error' = outcome
               /\ pc' = "fetch"
    /\ UNCHANGED <<OPENWEATHER_API_KEY, date_selected, forecast_list,
                   selected_forecast, df, Condition, risk_counts, total_slots,
                   written, unique_conditions, summary>>

\* app.py:41-47: one request; any exception is reported and the run stops.
FetchForecast ==
    /\ pc = "fetch"
    /\ executed' = Append(executed, "fetch")
    /\ \E outcome \in FetchFailures \cup {"ok"}, body \in ForecastLists :
          IF outcome = "ok"
          THEN /\ forecast_json' = [list |-> body]
               /\ fetch_error' = fetch_error
               /\ pc' = "filter"
          ELSE /\ body = <<>>
               /\ forecast_json' = forecast_json
               /\ fetch_error' = outcome
               /\ pc' = "stopped_fetch_error"
    /\ UNCHANGED <<OPENWEATHER_API_KEY, date_selected, forecast_list,
                   selected_forecast, df, Condition, risk_counts, total_slots,
                   written, unique_conditions, summary>>

\* The filter without the stop on an empty result.
FilterDateNoStop ==
    /\ pc = "filter"
    /\ executed' = Append(executed, "filter")
    /\ forecast_list' = forecast_json.list
    /\ selected_forecast' =
          SelectSeq(forecast_list', LAMBDA f : StartsWith(f.dt_txt, StrDate(date_selected)))
    /\ pc' = "build_df"
    /\ UNCHANGED <<OPENWEATHER_API_KEY, date_selected, fetch_error, forecast_json,
                   df, Condition, risk_counts, total_slots, written,
                   unique_conditions, summary>>

\* app.py:50-57: the records of the selected date; none of them stops the run.
FilterDate ==
    /\ pc = "filter"
    /\ executed' = Append(executed, "filter")
    /\ forecast_list' = forecast_json.list
    /\ selected_forecast' =
          SelectSeq(forecast_list', LAMBDA f : StartsWith(f.dt_txt, StrDate(date_selected)))
    /\ pc' = IF selected_forecast' = <<>> THEN "stopped_no_data" ELSE "build_df"
    /\ UNCHANGED <<OPENWEATHER_API_KEY, date_selected, fetch_error, forecast_json,
                   df, Condition, risk_counts, total_slots, written,
                   unique_conditions, summary>>

\* app.py:59-66: one row per selected record; the first record without a
\* required field raises, nothing catches it and the run ends there.
BuildDataFrame ==
    /\ pc = "build_df"
    /\ executed' = Append(executed, "build_df")
    /\ IF \E i \in DOMAIN selected_forecast : RowRaises(selected_forecast[i])
       THEN /\ df' = df
            /\ pc' = "crashed"
       ELSE /\ df' = [i \in DOMAIN selected_forecast |-> Row(selected_forecast[i])]
            /\ pc' = "classify"
    /\ UNCHANGED <<OPENWEATHER_API_KEY, date_selected, fetch_error, forecast_json,
                   forecast_list, selected_forecast, Condition, risk_counts,
                   total_slots, written, unique_conditions, summary>>

\* app.py:69-83: df.apply of weather_risk over the rows.
Classify ==
    /\ pc = "classify"
    /\ executed' = Append(executed, "classify")
    /\ Condition' = [i \in DOMAIN df |->
          weather_risk(df[i].temperature, df[i].wind_speed, df[i].rain, df[i].humidity)]
    /\ pc' = "risk_summary"
    /\ UNCHANGED <<OPENWEATHER_API_KEY, date_selected, fetch_error, forecast_json,
                   forecast_list, selected_forecast, df, risk_counts, total_slots,
                   written, unique_conditions, summary>>

\* app.py:104-110: the counts, and one written line per entry of the dict.
RiskSummary ==
    /\ pc = "risk_summary"
    /\ executed' = Append(executed, "risk_summary")
    /\ risk_counts' \in value_counts(Condition)
    /\ total_slots' = Len(df)
    /\ written' = [i \in DOMAIN risk_counts' |->
          [condition   |-> risk_counts'[i].condition,
           count       |-> risk_counts'[i].count,
           probability |-> Format1f(risk_counts'[i].count, total_slots')]]
    /\ pc' = "insight"
    /\ UNCHANGED <<OPENWEATHER_API_KEY, date_selected, fetch_error, forecast_json,
                   forecast_list, selected_forecast, df, Condition,
                   unique_conditions, summary>>

\* A summary that adds its clauses in the order the conditions were met.
SummaryInsightEncounterOrder ==
    /\ pc = "insight"
    /\ executed' = Append(executed, "insight")
    /\ unique_conditions' = unique(Condition)
    /\ summary' = [date       |-> StrDate(date_selected),
                   conditions |-> unique_conditions',
                   advice     |-> [i \in DOMAIN unique_conditions' |->
                                      Advice(<<unique_conditions'[i]>>)[1]]]
    /\ pc' = "done"
    /\ UNCHANGED <<OPENWEATHER_API_KEY, date_selected, fetch_error, forecast_json,
                   forecast_list, selected_forecast, df, Condition, risk_counts,
                   total_slots, written>>

\* app.py:122-136: the sentence with the distinct conditions, then the clauses.
SummaryInsight ==
    /\ pc = "insight"
    /\ executed' = Append(executed, "insight")
    /\ unique_conditions' = unique(Condition)
    /\ summary' = [date       |-> StrDate(date_selected),
                   conditions |-> unique_conditions',
                   advice     |-> Advice(unique_conditions')]
    /\ pc' = "done"
    /\ UNCHANGED <<OPENWEATHER_API_KEY, date_selected, fetch_error, forecast_json,
                   forecast_list, selected_forecast, df, Condition, risk_counts,
                   total_slots, written>>

Next ==
    \/ CheckKey
    \/ FetchForecast
    \/ FilterDate
    \/ BuildDataFrame
    \/ Classify
    \/ RiskSummary
    \/ SummaryInsight

Spec == Init /\ [][Next]_vars

----------------------------------------------------------------------------
(* The properties. *)

Ran(section) == \E i \in DOMAIN executed : executed[i] = section

RiskCategories ==
    {"Very Hot", "Very Cold", "Very Windy", "Very Wet", "Very Uncomfortable", "Comfortable"}

Listed == [i \in DOMAIN risk_counts |-> risk_counts[i].condition]

RECURSIVE SumOf(_, _)
SumOf(s, field) ==
    IF s = <<>> THEN 0 ELSE s[1][field] + SumOf(Tail(s), field)

Abs(x) == IF x < 0 THEN -x ELSE x

\* C1: every classified slot carries the category of the first rule it
\* matches, in the order hot (>= 35), cold (<= 10), windy (>= 10), wet (> 2),
\* uncomfortable (humidity >= 80 and 20 <= temperature <= 32), else
\* comfortable; each rule is stated with the earlier rules not matching.
C1_FirstMatchingRuleWins ==
    Ran("classify") =>
        /\ DOMAIN Condition = DOMAIN df
        /\ \A i \in DOMAIN df :
            LET t      == df[i].temperature
                hot    == t >= Tenths(35)
                cold   == t <= Tenths(10)
                windy  == df[i].wind_speed >= Tenths(10)
                wet    == df[i].rain > Tenths(2)
                sticky == df[i].humidity >= 80 /\ t >= Tenths(20) /\ t <= Tenths(32)
            IN  /\ hot => Condition[i] = "Very Hot"
                /\ (~hot /\ cold) => Condition[i] = "Very Cold"
                /\ (~hot /\ ~cold /\ windy) => Condition[i] = "Very Windy"
                /\ (~hot /\ ~cold /\ ~windy /\ wet) => Condition[i] = "Very Wet"
                /\ (~hot /\ ~cold /\ ~windy /\ ~wet /\ sticky)
                        => Condition[i] = "Very Uncomfortable"
                /\ (~hot /\ ~cold /\ ~windy /\ ~wet /\ ~sticky)
                        => Condition[i] = "Comfortable"

\* The slot 36 C, 15 m/s, 5 mm, 90 % matches the hot, windy and wet rules and
\* is classified Very Hot.
C1_Witness ==
    /\ Ran("classify")
    /\ \E i \in DOMAIN df :
        /\ df[i].temperature = Tenths(36)
        /\ df[i].wind_speed = Tenths(15)
        /\ df[i].rain = Tenths(5)
        /\ df[i].humidity = 90
        /\ Condition[i] = "Very Hot"

\* C2: in the risk assessment the counts add up to the number of slots, each
\* listed category is listed once with the number of its slots, which is at
\* least 1, and the listed categories are exactly those some slot carries.
C2_CountsPartitionSlots ==
    Ran("risk_summary") =>
        /\ SumOf(risk_counts, "count") = Len(df)
        /\ total_slots = Len(df)
        /\ \A i \in DOMAIN risk_counts :
            /\ risk_counts[i].count >= 1
            /\ risk_counts[i].count = Count(Condition, risk_counts[i].condition)
        /\ \A i, j \in DOMAIN risk_counts : i # j => Listed[i] # Listed[j]
        /\ Range(Listed) = Range(Condition)

\* A run of at least three slots with some categories present and some absent.
C2_Witness ==
    /\ Ran("risk_summary")
    /\ total_slots >= 3
    /\ Len(risk_counts) >= 2
    /\ Len(risk_counts) < Cardinality(RiskCategories)
    /\ \E i \in DOMAIN risk_counts : risk_counts[i].count >= 2

\* C3 as claimed: the written probabilities add up to 100.0 give or take 0.1.
C3_RoundedSumWithinOneTenth ==
    Ran("risk_summary") => Abs(SumOf(written, "probability") - 1000) <= 1

\* C3: the written probabilities add up to 100.0 give or take 0.05 for each
\* category written (twice the distance, in tenths, is at most their number).
C3_RoundedSumWithinHalfTenthEach ==
    Ran("risk_summary") =>
        2 * Abs(SumOf(written, "probability") - 1000) <= Len(written)

\* Six slots, one per category: six times 16.7 is 100.2.
C3_Witness ==
    /\ Ran("risk_summary")
    /\ Len(written) = 6
    /\ SumOf(written, "probability") = 1002

\* The counts of the listed categories differ pairwise.
DistinctCounts ==
    \A i, j \in DOMAIN risk_counts :
        i # j => risk_counts[i].count # risk_counts[j].count

C5_MalformedRecordExcluded ==
    Ran("build_df") =>
        /\ pc # "crashed"
        /\ df = [i \in DOMAIN SelectSeq(selected_forecast, LAMBDA f : ~RowRaises(f)) |->
                    Row(SelectSeq(selected_forecast, LAMBDA f : ~RowRaises(f))[i])]

\* C6: when no record is of the selected date the run stops there: nothing
\* after the filter runs and nothing is classified, counted or summarised.
C6_EmptySelectionStops ==
    (Ran("filter") /\ selected_forecast = <<>>) =>
        /\ pc = "stopped_no_data"
        /\ executed = <<"check_key", "fetch", "filter">>
        /\ df = Unset
        /\ Condition = Unset
        /\ risk_counts = Unset
        /\ written = <<>>
        /\ summary = Unset

\* A fetched list with records, none of them of the selected date.
C6_Witness ==
    /\ pc = "stopped_no_data"
    /\ Len(forecast_list) >= 2
    /\ selected_forecast = <<>>

ClauseOf(c) ==
    CASE c = "Very Hot" -> "Stay hydrated and avoid peak afternoon heat."
      [] c = "Very Cold" -> "Wear layers and protect against the cold."
      [] c = "Very Windy" -> "Be cautious with outdoor activities."
      [] c = "Very Wet" -> "Carry rain gear or reconsider outdoor plans."
      [] c = "Very Uncomfortable" -> "High humidity may cause discomfort."
      [] c = "Comfortable" -> "Great conditions for outdoor activities!"

ClauseOrder ==
    <<"Very Hot", "Very Cold", "Very Windy", "Very Wet", "Very Uncomfortable", "Comfortable">>

\* The place of a clause in the fixed order.
Rank(clause) == CHOOSE k \in DOMAIN ClauseOrder : ClauseOf(ClauseOrder[k]) = clause

\* C7: the summary has one clause for each category some slot carries, none
\* for the others, and the clauses stand in the order hot, cold, windy, wet,
\* uncomfortable, comfortable.
C7_OneClausePerCategoryInFixedOrder ==
    Ran("insight") =>
        /\ \A c \in RiskCategories :
            Cardinality({i \in DOMAIN summary.advice : summary.advice[i] = ClauseOf(c)})
                = IF c \in Range(Condition) THEN 1 ELSE 0
        /\ Len(summary.advice) = Cardinality(Range(Condition))
        /\ \A i, j \in DOMAIN summary.advice :
            i < j => Rank(summary.advice[i]) < Rank(summary.advice[j])

\* Comfortable is met first and Very Hot after it; the hot clause still leads.
C7_Witness ==
    /\ Ran("insight")
    /\ Len(unique_conditions) >= 3
    /\ unique_conditions[1] = "Comfortable"
    /\ "Very Hot" \in Range(unique_conditions)
    /\ summary.advice[1] = ClauseOf("Very Hot")
    /\ summary.advice[Len(summary.advice)] = ClauseOf("Comfortable")

\* C8: classification never fails and gives every slot of the data frame one
\* of the six categories.
C8_ClassifierTotal ==
    /\ pc = "classify" => ENABLED Classify
    /\ Ran("classify") =>
        /\ pc \in {"risk_summary", "insight", "done"}
        /\ Len(Condition) = Len(df)
        /\ \A i \in DOMAIN Condition : Condition[i] \in RiskCategories

\* A classified run of three slots in three categories.
C8_Witness ==
    /\ Ran("classify")
    /\ Len(df) = 3
    /\ Cardinality(Range(Condition)) = 3

DigitValue(c) == CHOOSE n \in 0..9 : DigitChars[n + 1] = c

RECURSIVE Number(_)
Number(chars) ==
    IF chars = <<>> THEN 0
    ELSE 10 * Number(SubSeq(chars, 1, Len(chars) - 1)) + DigitValue(chars[Len(chars)])

\* The date component of a timestamp "YYYY-MM-DD HH:MM:SS".
DateOf(stamp) ==
    [year  |-> Number(SubSeq(stamp, 1, 4)),
     month |-> Number(SubSeq(stamp, 6, 7)),
     day   |-> Number(SubSeq(stamp, 9, 10))]

\* C9: the selected records are the fetched records whose timestamp has the
\* selected date, in the order of the fetched list, and the data frame, once
\* built, has one row per selected record with that record's values, with
\* rain 0 for a record that has no rain field.
C9_SlotsAreRecordsOfDateInOrder ==
    /\ Ran("filter") =>
        selected_forecast =
            SelectSeq(forecast_list, LAMBDA f : DateOf(f.dt_txt) = date_selected)
    /\ (Ran("build_df") /\ pc # "crashed") =>
        /\ Len(df) = Len(selected_forecast)
        /\ \A i \in DOMAIN df :
            /\ df[i].time = selected_forecast[i].dt_txt
            /\ df[i].temperature = selected_forecast[i].main.temp
            /\ df[i].humidity = selected_forecast[i].main.humidity
            /\ df[i].wind_speed = selected_forecast[i].wind.speed
            /\ "rain" \notin DOMAIN selected_forecast[i] => df[i].rain = 0
            /\ ("rain" \in DOMAIN selected_forecast[i]
                    /\ "3h" \in DOMAIN selected_forecast[i].rain)
                => df[i].rain = selected_forecast[i].rain["3h"]

\* A record of the other date is dropped from between two records that stay,
\* and a record without rain gets rain 0.
C9_Witness ==
    /\ pc = "classify"
    /\ Len(forecast_list) = 3
    /\ DateOf(forecast_list[2].dt_txt) # date_selected
    /\ Len(df) = 2
    /\ "rain" \notin DOMAIN selected_forecast[1]
    /\ df[1].rain = 0
    /\ df[2].rain > 0

\* C10: a run fetches at most once, and after a failed fetch it has stopped
\* with nothing filtered, classified, counted or summarised.
C10_FailedFetchStopsRun ==
    /\ Cardinality({i \in DOMAIN executed : executed[i] = "fetch"}) <= 1
    /\ fetch_error # "none" =>
        /\ pc = "stopped_fetch_error"
        /\ executed = <<"check_key", "fetch">>
        /\ forecast_list = Unset
        /\ selected_forecast = Unset
        /\ df = Unset
        /\ Condition = Unset
        /\ risk_counts = Unset
        /\ summary = Unset

\* The fetch failed with an HTTP error status.
C10_Witness ==
    /\ pc = "stopped_fetch_error"
    /\ fetch_error = "HTTPError"

====
